---- MODULE Spec2Model ----
(***************************************************************************)
(* useTesseract (the OCR composable): the closure state `worker` and        *)
(* `loading`, the async operations recognizeOCR and terminate cut at their  *)
(* await points, and the tesseract.js engine they drive; preprocessImage on *)
(* the pixels of a bitmap; and CameraView's scan box, its gestures and the  *)
(* mapping of the box into the photo (handleScan, takePhoto).               *)
(*                                                                          *)
(* An async function runs synchronously up to its next `await`; each action *)
(* below is one such synchronous stretch.  The engine is a web worker that  *)
(* serves the calls posted to it in the order they are posted, so the       *)
(* effect of an engine call is taken at the moment the call is issued and   *)
(* the later Resolve action is the continuation of the awaiting function.   *)
(***************************************************************************)
EXTENDS Integers, Sequences, FiniteSets, TLC

\* ------------------------------------------------------------------ bounds
MaxCalls == 2          \* recognizeOCR invocations in one behaviour
MaxTerminates == 2     \* terminate invocations in one behaviour
MaxTasks == 2          \* longest task array handed to recognizeOCR
MaxPixels == 3         \* most pixels of a bitmap handed to preprocessImage

\* --------------------------------------------------------------- constants
SCALE_FACTOR == 2

Callers == {1, 2}        \* recognizeOCR invocations that may be pending together
Terminators == {1, 2}    \* terminate invocations that may be pending together

NoWorker == 0                  \* worker === null
Undefined == "undefined"       \* an absent psm
NoLangs == <<>>                \* an absent (or empty-string) langs
NoRect == <<>>                 \* an absent rectangle
NoImage == <<>>                \* imageBlob === null
NoParams == [k \in {} |-> ""]  \* an absent parameters object, and {}

DefaultLangs == <<"eng", "chi_sim", "chi_tra">>

\* A rectangle is <<left, top, width, height>>; an image is <<width, height>>.
Left(r) == r[1]
Top(r) == r[2]
Width(r) == r[3]
Height(r) == r[4]

\* ------------------------------------------------------------------ inputs
Images == { <<2, 2>> }

Whitelist == [k \in {"tessedit_char_whitelist"} |-> "0123456789"]
WhitelistAndMode ==
    [k \in {"tessedit_char_whitelist", "tessedit_pageseg_mode"} |->
        IF k = "tessedit_char_whitelist" THEN "ABC" ELSE "6"]

\* The task descriptors (OCRTaskOptions) the calls draw from.
TaskPool ==
    { [langs |-> NoLangs, rectangle |-> NoRect, parameters |-> NoParams, psm |-> Undefined],
      [langs |-> NoLangs, rectangle |-> <<0, 0, 2, 1>>, parameters |-> NoParams, psm |-> "3"],
      [langs |-> <<"eng">>, rectangle |-> <<1, 1, 2, 1>>, parameters |-> Whitelist, psm |-> "7"],
      [langs |-> <<"chi_tra">>, rectangle |-> <<1, 0, 0, 1>>, parameters |-> WhitelistAndMode, psm |-> Undefined] }

\* Raw texts the engine may report (result.data.text), as sequences of characters.
RawTexts ==
    { <<" ", "\n">>,
      <<"a", "\n", "b", " ">> }

VARIABLES
    worker,       \* the closure variable `worker`: NoWorker or an index into engines
    loading,      \* loading.value
    engines,      \* every engine createWorker has returned, in creation order
    calls,        \* per caller: the recognizeOCR invocation it is in
    terms,        \* per terminator: the terminate invocation it is in
    nCalls,       \* recognizeOCR invocations started so far
    nTerms,       \* terminate invocations started so far
    hist,         \* observations kept for the properties
    env,          \* how the composable is used: "concurrent", "awaited" or
                  \* "deterministic" (awaited, on an engine whose text is a function
                  \* of what it is given), "imaging" (preprocessImage on its own)
                  \* or "view" (the camera view on its own)
    imaging,      \* one run of preprocessImage: the decoded bitmap and the canvas
    view          \* CameraView: the overlay, the scan box, the gesture, the last scan

vars == <<worker, loading, engines, calls, terms, nCalls, nTerms, hist, env, imaging, view>>

\* The state of the composable, its engines and its invocations.
ocrVars == <<worker, loading, engines, calls, terms, nCalls, nTerms, hist, env>>

\* ------------------------------------------------------- pure helpers
\* JavaScript truthiness of an optional psm (a Tesseract.PSM string).
Truthy(psm) == psm \notin {Undefined, ""}

\* \s of the regular expression, and the characters String.prototype.trim removes.
WhiteSpace == {" ", "\t", "\n", "\r"}
IsSpace(ch) == ch \in WhiteSpace

\* text.replace(/[\n\r\s]/g, '')
RemoveAllWhitespace(text) == SelectSeq(text, LAMBDA ch : ~IsSpace(ch))

RECURSIVE TrimStart(_)
TrimStart(text) ==
    IF text # <<>> /\ IsSpace(Head(text)) THEN TrimStart(Tail(text)) ELSE text

RECURSIVE TrimEnd(_)
TrimEnd(text) ==
    IF text # <<>> /\ IsSpace(text[Len(text)])
    THEN TrimEnd(SubSeq(text, 1, Len(text) - 1))
    ELSE text

\* text.trim()
Trim(text) == TrimEnd(TrimStart(text))

\* The post-processing of one task's raw text.
PostProcess(psm, text) ==
    IF Truthy(psm) THEN RemoveAllWhitespace(text) ELSE Trim(text)

\* The slip of a merge in which the keys already there win.
SpreadFirstWins(a, b) ==
    [k \in DOMAIN a \cup DOMAIN b |-> IF k \in DOMAIN a THEN a[k] ELSE b[k]]

\* { ...a, ...b }: b's keys overwrite a's.
Spread(a, b) ==
    [k \in DOMAIN a \cup DOMAIN b |-> IF k \in DOMAIN b THEN b[k] ELSE a[k]]

ModeParam(psm) == [k \in {"tessedit_pageseg_mode"} |-> psm]

\* The slip `psm ? { tessedit_pageseg_mode: psm } : { ...parameters }`.
FinalParamsModeOnly(task) ==
    IF Truthy(task.psm)
    THEN ModeParam(task.psm)
    ELSE Spread(NoParams, task.parameters)

\* finalParams of one task: its parameters, with psm as tessedit_pageseg_mode.
FinalParams(task) ==
    IF Truthy(task.psm)
    THEN Spread(Spread(NoParams, task.parameters), ModeParam(task.psm))
    ELSE Spread(NoParams, task.parameters)

\* scaledRectangle of one task.
ScaledRectangle(rectangle) ==
    IF rectangle # NoRect
    THEN << Left(rectangle) * SCALE_FACTOR, Top(rectangle) * SCALE_FACTOR,
            Width(rectangle) * SCALE_FACTOR, Height(rectangle) * SCALE_FACTOR >>
    ELSE NoRect

\* The slip of enlarging the width only.
CanvasSizeWidthOnly(image) == << image[1] * SCALE_FACTOR, image[2] >>

\* The canvas preprocessImage returns: the bitmap enlarged SCALE_FACTOR times.
CanvasSize(image) == << image[1] * SCALE_FACTOR, image[2] * SCALE_FACTOR >>

\* initLangs: the single task's langs, or the first task's of an array, or the default.
InitLangs(isBatch, tasks) ==
    IF ~isBatch /\ tasks[1].langs # NoLangs THEN tasks[1].langs
    ELSE IF isBatch /\ Len(tasks) > 0 /\ tasks[1].langs # NoLangs THEN tasks[1].langs
    ELSE DefaultLangs

\* What recognizeOCR hands back: a string, or an array of strings.
StringValue(text) == [kind |-> "string", value |-> text]
ArrayValue(texts) == [kind |-> "array", value |-> texts]

\* isBatch ? [] : ''
EmptyValue(isBatch) == IF isBatch THEN ArrayValue(<<>>) ELSE StringValue(<<>>)

\* The slip of returning the first result whatever the shape of the input.
FinalResultFirstOnly(isBatch, results) ==
    IF results # <<>> THEN StringValue(results[1]) ELSE StringValue(<<>>)

\* isBatch ? results : (results[0] ?? '')
FinalResult(isBatch, results) ==
    IF isBatch THEN ArrayValue(results)
    ELSE IF results # <<>> THEN StringValue(results[1]) ELSE StringValue(<<>>)

\* ---------------------------------------------------------- the options
RECURSIVE TaskArrays(_)
TaskArrays(n) ==
    IF n = 0 THEN { <<>> }
    ELSE LET shorter == TaskArrays(n - 1)
         IN  shorter \cup { Append(ts, t) : ts \in { s \in shorter : Len(s) = n - 1 }, t \in TaskPool }

\* The second argument of recognizeOCR: one task object, or an array of tasks.
Options ==
    { [isBatch |-> FALSE, tasks |-> <<t>>] : t \in TaskPool }
    \cup { [isBatch |-> TRUE, tasks |-> ts] : ts \in TaskArrays(MaxTasks) }

\* The workload of the concurrent environment: what handleScan passes (one task
\* with psm 3 and a rectangle), a bare task, and one two-task array.
PlainTask == [langs |-> NoLangs, rectangle |-> NoRect, parameters |-> NoParams, psm |-> Undefined]
ScanTask == [langs |-> NoLangs, rectangle |-> <<0, 0, 2, 1>>, parameters |-> NoParams, psm |-> "3"]
LineTask == [langs |-> <<"eng">>, rectangle |-> <<1, 1, 2, 1>>, parameters |-> Whitelist, psm |-> "7"]

ConcurrentOptions ==
    { [isBatch |-> FALSE, tasks |-> <<ScanTask>>],
      [isBatch |-> FALSE, tasks |-> <<PlainTask>>],
      [isBatch |-> TRUE, tasks |-> <<LineTask, PlainTask>>] }

OptionsOf(e) == IF e \in {"awaited", "deterministic"} THEN Options ELSE ConcurrentOptions
TextsOf(e) == IF e = "awaited" THEN RawTexts ELSE { <<"a", "\n", "b", " ">> }
ImagesOf(e) == IF e = "deterministic" THEN { <<3, 2>> } ELSE Images

\* The environments in which every invocation is awaited before the next is made.
Awaiting == {"awaited", "deterministic"}

\* A deterministic engine: the text it reads is a function of the languages it was
\* created for, the parameters in effect and the rectangle it is given (the image
\* is the same throughout).  A whitelist restricts the characters, a single-line
\* mode joins the lines, and the whole image carries a margin the region lacks.
EngineText(langs, params, rectangle) ==
    LET glyphs == IF "tessedit_char_whitelist" \in DOMAIN params
                  THEN IF params["tessedit_char_whitelist"] = "0123456789"
                       THEN <<"1", "\n", "2">>
                       ELSE <<"A", "\n", "B">>
                  ELSE IF langs = <<"eng">> THEN <<"a", "\n", "b">>
                  ELSE <<"x", "\n", "y">>
        lines == IF "tessedit_pageseg_mode" \in DOMAIN params
                    /\ params["tessedit_pageseg_mode"] = "7"
                 THEN SelectSeq(glyphs, LAMBDA ch : ch # "\n")
                 ELSE glyphs
    IN  IF rectangle = NoRect THEN <<" ">> \o lines \o <<"\n">> ELSE lines \o <<" ">>

\* result.data.text of a recognize call that went to engine `target`.
TextsFor(e, target, rec) ==
    IF e = "deterministic"
    THEN { EngineText(engines[target].langs, rec.inEffect, rec.rectangle) }
    ELSE TextsOf(e)

\* ------------------------------------------------------------- state
IdleCall ==
    [ pc |-> "idle", image |-> NoImage, isBatch |-> FALSE, tasks |-> <<>>,
      initLangs |-> NoLangs, processedImage |-> NoImage, i |-> 1,
      results |-> <<>>, raws |-> <<>>, target |-> NoWorker, settled |-> "none",
      rectangle |-> NoRect, inEffect |-> NoParams, ticket |-> 0,
      outcome |-> "none", ret |-> StringValue(<<>>), startParams |-> NoParams ]

IdleTerm == [ pc |-> "idle", target |-> NoWorker ]

NewEngine(langs) ==
    [ langs |-> langs, params |-> NoParams, alive |-> TRUE, terminateCalls |-> 0 ]

\* overlapped: two recognizeOCR invocations have been pending together;
\* quiet: a terminate has returned and no recognizeOCR has started since;
\* misuse: an invocation has dereferenced a null worker ("null") or called a
\*   terminated engine ("terminated");
\* applied: per engine, the overrides of the tasks recognized on it so far.
NoHistory == [ overlapped |-> FALSE, quiet |-> FALSE, misuse |-> "none", applied |-> <<>> ]

\* The overrides in force once `task` has added its own to `old`: its segmentation
\* mode as tessedit_pageseg_mode, else its parameters, else what was there.
Accumulate(old, task) ==
    LET mode == IF task.psm # Undefined THEN {"tessedit_pageseg_mode"} ELSE {}
    IN  [k \in DOMAIN old \cup DOMAIN task.parameters \cup mode |->
            IF k \in mode THEN task.psm
            ELSE IF k \in DOMAIN task.parameters THEN task.parameters[k]
            ELSE old[k]]

\* No preprocessImage run is being looked at; the camera view is not mounted.
NoImaging == [ stage |-> "none" ]
NoView == [ stage |-> "none" ]

Pending(c) == calls[c].pc \in {"creating", "preprocessing", "setParameters", "recognize"}

Init ==
    /\ worker = NoWorker
    /\ loading = FALSE
    /\ engines = <<>>
    /\ calls = [c \in Callers |-> IdleCall]
    /\ terms = [t \in Terminators |-> IdleTerm]
    /\ nCalls = 0
    /\ nTerms = 0
    /\ hist = NoHistory
    /\ env = "concurrent"
    /\ imaging = NoImaging
    /\ view = NoView

\* Every invocation is awaited, and the engine is deterministic.
InitDeterministic ==
    /\ worker = NoWorker
    /\ loading = FALSE
    /\ engines = <<>>
    /\ calls = [c \in Callers |-> IdleCall]
    /\ terms = [t \in Terminators |-> IdleTerm]
    /\ nCalls = 0
    /\ nTerms = 0
    /\ hist = NoHistory
    /\ env = "deterministic"
    /\ imaging = NoImaging
    /\ view = NoView

\* Every invocation is awaited before the next one is made.
InitAwaited ==
    /\ worker = NoWorker
    /\ loading = FALSE
    /\ engines = <<>>
    /\ calls = [c \in Callers |-> IdleCall]
    /\ terms = [t \in Terminators |-> IdleTerm]
    /\ nCalls = 0
    /\ nTerms = 0
    /\ hist = NoHistory
    /\ env = "awaited"
    /\ imaging = NoImaging
    /\ view = NoView

\* Nothing is pending: the environment that awaits may make its next invocation.
Settled ==
    /\ \A c \in Callers : ~Pending(c)
    /\ \A t \in Terminators : terms[t].pc # "terminating"

\* ------------------------------------------------- recognizeOCR, by stretch
\* The invocation is over and its locals are gone.  What it handed back (ret), by
\* which path (outcome) and for which shape of input (isBatch) is kept; of a
\* successful return also the tasks and the raw texts the engine gave for them,
\* and on the deterministic engine which engine that was and the parameters it
\* had when the call started.
Returned(rec, value, how) ==
    [IdleCall EXCEPT !.pc = "returned", !.isBatch = rec.isBatch,
                     !.tasks = IF how = "returned" THEN rec.tasks ELSE <<>>,
                     !.raws = IF how = "returned" THEN rec.raws ELSE <<>>,
                     !.target = IF how = "returned" /\ env = "deterministic"
                                THEN rec.target ELSE NoWorker,
                     !.startParams = IF how = "returned" THEN rec.startParams ELSE NoParams,
                     !.ret = value, !.outcome = how]

\* `return` from inside try/catch: the finally block clears loading.
Return(c, rec, value, how) ==
    /\ calls' = [calls EXCEPT ![c] = Returned(rec, value, how)]
    /\ loading' = FALSE

\* catch (error) { return isBatch ? [] : '' }
Catch(c, rec) == Return(c, rec, EmptyValue(rec.isBatch), "caught")

\* worker! on a null worker throws a TypeError, which the catch block takes.
ThrowOnNull(c, rec) ==
    /\ Catch(c, rec)
    /\ engines' = engines
    /\ hist' = [hist EXCEPT !.misuse = "null"]

\* How a call issued now on engine e can settle: a terminated engine serves nothing.
Settlements(e) == IF engines[e].alive THEN {"ok", "error"} ELSE {"error"}

NoteCall(e) ==
    IF engines[e].alive THEN hist ELSE [hist EXCEPT !.misuse = "terminated"]

\* await worker!.recognize(processedImage!, { rectangle: scaledRectangle })
CallRecognize(c, rec) ==
    IF worker = NoWorker
    THEN ThrowOnNull(c, rec)
    ELSE \E s \in Settlements(worker) :
            /\ calls' = [calls EXCEPT ![c] =
                            [rec EXCEPT !.pc = "recognize", !.target = worker, !.settled = s,
                                        !.rectangle = ScaledRectangle(rec.tasks[rec.i].rectangle),
                                        !.inEffect = engines[worker].params]]
            /\ loading' = loading
            /\ engines' = engines
            /\ hist' = [NoteCall(worker) EXCEPT
                            !.applied[worker] = Accumulate(@, rec.tasks[rec.i])]

\* await worker!.setParameters(finalParams): the engine merges them into its own.
CallSetParameters(c, rec, finalParams) ==
    IF worker = NoWorker
    THEN ThrowOnNull(c, rec)
    ELSE \E s \in Settlements(worker) :
            /\ calls' = [calls EXCEPT ![c] =
                            [rec EXCEPT !.pc = "setParameters", !.target = worker, !.settled = s]]
            /\ loading' = loading
            /\ engines' = IF s = "ok"
                          THEN [engines EXCEPT ![worker].params = Spread(@, finalParams)]
                          ELSE engines
            /\ hist' = NoteCall(worker)

\* One turn of `for (const task of tasks)`, up to its first await; after the last
\* task, the return of finalResult.
LoopHead(c, rec) ==
    IF rec.i > Len(rec.tasks)
    THEN /\ Return(c, rec, FinalResult(rec.isBatch, rec.results), "returned")
         /\ engines' = engines
         /\ hist' = hist
    ELSE LET finalParams == FinalParams(rec.tasks[rec.i])
         IN  IF DOMAIN finalParams # {}
             THEN CallSetParameters(c, rec, finalParams)
             ELSE CallRecognize(c, rec)

\* The slip of creating a worker on every call.
NeedsWorkerAlways == TRUE

\* if (!worker)
NeedsWorker == worker = NoWorker

\* recognizeOCR(imageBlob, options), up to its first await.
Start(c) ==
    /\ calls[c].pc \in {"idle", "returned"}
    /\ \A d \in Callers : d < c => Pending(d)
    /\ env \in Awaiting => Settled
    /\ nCalls < MaxCalls
    /\ nCalls' = nCalls + 1
    /\ \E image \in ImagesOf(env) \cup {NoImage}, options \in OptionsOf(env) :
          LET rec == [IdleCall EXCEPT !.image = image, !.isBatch = options.isBatch,
                                      !.tasks = options.tasks, !.ticket = nCalls + 1,
                                      !.startParams = IF worker # NoWorker /\ env = "deterministic"
                                                      THEN engines[worker].params
                                                      ELSE NoParams]
          IN  IF image = NoImage
              THEN /\ calls' = [calls EXCEPT ![c] =
                                   Returned(rec, EmptyValue(options.isBatch), "noImage")]
                   /\ loading' = loading
                   /\ hist' = hist
              ELSE /\ calls' = [calls EXCEPT ![c] =
                                   [rec EXCEPT !.initLangs = InitLangs(options.isBatch, options.tasks),
                                               !.pc = IF NeedsWorker THEN "creating"
                                                      ELSE "preprocessing"]]
                   /\ loading' = TRUE
                   /\ hist' = [hist EXCEPT !.quiet = FALSE,
                                           !.overlapped = @ \/ \E d \in Callers \ {c} : Pending(d)]
    /\ UNCHANGED <<worker, engines, terms, nTerms, env, imaging, view>>

\* The slip of going on to the tasks after createWorker has rejected.
CreateResolveGoesOn(c) ==
    /\ calls[c].pc = "creating"
    /\ \/ /\ engines' = Append(engines, NewEngine(calls[c].initLangs))
          /\ worker' = Len(engines) + 1
          /\ hist' = [hist EXCEPT !.applied = Append(@, NoParams)]
       \/ UNCHANGED <<engines, worker, hist>>
    /\ calls' = [calls EXCEPT ![c].pc = "preprocessing"]
    /\ UNCHANGED <<loading, terms, nCalls, nTerms, env, imaging, view>>

\* worker = await createWorker(initLangs, ...) settles, and preprocessImage starts.
CreateResolve(c) ==
    /\ calls[c].pc = "creating"
    /\ \/ /\ engines' = Append(engines, NewEngine(calls[c].initLangs))
          /\ worker' = Len(engines) + 1
          /\ calls' = [calls EXCEPT ![c].pc = "preprocessing"]
          /\ hist' = [hist EXCEPT !.applied = Append(@, NoParams)]
          /\ UNCHANGED loading
       \/ /\ Catch(c, calls[c])
          /\ UNCHANGED <<engines, worker, hist>>
    /\ UNCHANGED <<terms, nCalls, nTerms, env, imaging, view>>

\* processedImage = await preprocessImage(imageBlob) settles, and the loop starts.
PreprocessResolve(c) ==
    /\ calls[c].pc = "preprocessing"
    /\ \/ LoopHead(c, [calls[c] EXCEPT !.processedImage = CanvasSize(calls[c].image)])
       \/ /\ Catch(c, calls[c])
          /\ UNCHANGED <<engines, hist>>
    /\ UNCHANGED <<worker, terms, nCalls, nTerms, env, imaging, view>>

\* setParameters settles; the task goes on to recognize.
SetParametersResolve(c) ==
    /\ calls[c].pc = "setParameters"
    /\ IF calls[c].settled = "ok"
       THEN CallRecognize(c, calls[c])
       ELSE /\ Catch(c, calls[c])
            /\ UNCHANGED <<engines, hist>>
    /\ UNCHANGED <<worker, terms, nCalls, nTerms, env, imaging, view>>

\* recognize settles: the text is post-processed and pushed, and the loop goes on.
RecognizeResolve(c) ==
    /\ calls[c].pc = "recognize"
    /\ IF calls[c].settled = "ok"
       THEN \E text \in TextsFor(env, calls[c].target, calls[c]) :
               LoopHead(c, [calls[c] EXCEPT
                               !.results = Append(@, PostProcess(calls[c].tasks[calls[c].i].psm, text)),
                               !.raws = Append(@, text),
                               !.i = @ + 1])
       ELSE /\ Catch(c, calls[c])
            /\ UNCHANGED <<engines, hist>>
    /\ UNCHANGED <<worker, terms, nCalls, nTerms, env, imaging, view>>

\* ---------------------------------------------------- terminate, by stretch
\* terminate(), up to `await worker.terminate()`; all of it when worker is null.
TerminateStart(t) ==
    /\ terms[t].pc \in {"idle", "returned"}
    /\ \A u \in Terminators : u < t => terms[u].pc = "terminating"
    /\ env \in Awaiting => Settled
    /\ nTerms < MaxTerminates
    /\ nTerms' = nTerms + 1
    /\ IF worker # NoWorker
       THEN /\ engines' = [engines EXCEPT ![worker].alive = FALSE,
                                          ![worker].params = NoParams,
                                          ![worker].terminateCalls = @ + 1]
            /\ terms' = [terms EXCEPT ![t] = [pc |-> "terminating", target |-> worker]]
            /\ hist' = [hist EXCEPT !.applied[worker] = NoParams]
            /\ UNCHANGED loading
       ELSE /\ loading' = FALSE
            /\ terms' = [terms EXCEPT ![t] = [pc |-> "returned", target |-> NoWorker]]
            /\ hist' = [hist EXCEPT !.quiet = TRUE]
            /\ UNCHANGED engines
    /\ UNCHANGED <<worker, calls, nCalls, env, imaging, view>>

\* The slip of leaving out `worker = null`.
TerminateResumeKeepsWorker(t) ==
    /\ terms[t].pc = "terminating"
    /\ loading' = FALSE
    /\ terms' = [terms EXCEPT ![t].pc = "returned"]
    /\ hist' = [hist EXCEPT !.quiet = TRUE]
    /\ UNCHANGED <<worker, engines, calls, nCalls, nTerms, env, imaging, view>>

\* worker.terminate() settles: worker = null; loading.value = false.
TerminateResume(t) ==
    /\ terms[t].pc = "terminating"
    /\ worker' = NoWorker
    /\ loading' = FALSE
    /\ terms' = [terms EXCEPT ![t].pc = "returned"]
    /\ hist' = [hist EXCEPT !.quiet = TRUE]
    /\ UNCHANGED <<engines, calls, nCalls, nTerms, env, imaging, view>>

Next ==
    \/ \E c \in Callers : Start(c)
    \/ \E c \in Callers : CreateResolve(c)
    \/ \E c \in Callers : PreprocessResolve(c)
    \/ \E c \in Callers : SetParametersResolve(c)
    \/ \E c \in Callers : RecognizeResolve(c)
    \/ \E t \in Terminators : TerminateStart(t)
    \/ \E t \in Terminators : TerminateResume(t)

Spec == Init /\ [][Next]_vars

SpecAwaited == InitAwaited /\ [][Next]_vars

SpecDeterministic == InitDeterministic /\ [][Next]_vars

\* ------------------------------------------ preprocessImage, on the pixels
\* A pixel is <<r, g, b>>; the alpha channel is never written and is left out.
Colours == { <<0, 0, 0>>, <<255, 255, 255>>, <<255, 0, 0>>, <<0, 255, 0>> }

\* The decoded bitmaps: every width x height of at most MaxPixels pixels.
Bitmaps ==
    UNION { [width : {w}, height : {h}, data : [1..(w * h) -> Colours]] :
                <<w, h>> \in { s \in (1..MaxPixels) \X (1..MaxPixels) : s[1] * s[2] <= MaxPixels } }

\* Grays are kept in units of 1/LumaUnit, which makes the weights whole numbers.
LumaUnit == 10000
Luma(pixel) == 2126 * pixel[1] + 7152 * pixel[2] + 722 * pixel[3]

RECURSIVE Gcd(_, _)
Gcd(a, b) == IF b = 0 THEN a ELSE Gcd(b, a % b)

\* ctx.drawImage(imgBitmap, 0, 0, canvas.width, canvas.height) with smoothing
\* off: every canvas pixel takes the bitmap pixel it lies over.
Upscaled(bitmap) ==
    LET size == CanvasSize(<<bitmap.width, bitmap.height>>)
    IN  [ width |-> size[1], height |-> size[2],
          data |-> [k \in 1..(size[1] * size[2]) |->
                       LET x == (k - 1) % size[1]
                           y == (k - 1) \div size[1]
                       IN  bitmap.data[(y \div SCALE_FACTOR) * bitmap.width
                                        + (x \div SCALE_FACTOR) + 1]] ]

\* Pass 1: minGray (from 255), maxGray (from 0) and totalBrightness.
MinGray(data) ==
    LET grays == { Luma(data[k]) : k \in DOMAIN data } \cup { 255 * LumaUnit }
    IN  CHOOSE m \in grays : \A g \in grays : m <= g
MaxGray(data) ==
    LET grays == { Luma(data[k]) : k \in DOMAIN data } \cup { 0 }
    IN  CHOOSE m \in grays : \A g \in grays : m >= g

RECURSIVE TotalBrightness(_)
TotalBrightness(data) ==
    IF data = <<>> THEN 0 ELSE Luma(Head(data)) + TotalBrightness(Tail(data))

\* avgGray < 100, with avgGray = totalBrightness / pixelCount.
IsDarkBackground(data) == TotalBrightness(data) < 100 * LumaUnit * Len(data)

\* The slip of leaving out the guard against a zero range.  A fraction is
\* <<numerator, denominator>>.
StretchScaleUnguarded(range) == <<255 * LumaUnit, range>>

\* scale = range === 0 ? 1 : 255 / range, as a fraction (per unit of gray).
StretchScale(range) == IF range = 0 THEN <<1, 1>> ELSE <<255 * LumaUnit, range>>

\* A number of 0..255 with a fraction, written into a Uint8ClampedArray: rounded
\* to the nearest integer, a tie to the even one.
RoundHalfEven(whole, rest, unit) ==
    IF 2 * rest > unit THEN whole + 1
    ELSE IF 2 * rest < unit THEN whole
    ELSE IF whole % 2 = 0 THEN whole ELSE whole + 1

\* finalPixel * finalPixel / 255 for finalPixel = 255 * u / v (u <= v, in lowest
\* terms), as it is stored: 255 * u^2 / v^2, divided in two steps (15 * 17 = 255).
Gamma(u, v) ==
    LET x == u * u
        y == v * v
        q1 == (15 * x) \div y
        r1 == (15 * x) % y
        q2 == (17 * r1) \div y
        r2 == (17 * r1) % y
    IN  RoundHalfEven(17 * q1 + q2, r2, y)

\* Pass 2 for one gray: stretch by scale, clamp to 0..255, invert on a dark
\* background, square and store.  normalized is top / den.  With a zero
\* denominator (a scale of Infinity) the stretch of the one gray there is, 0 *
\* Infinity, is a NaN, which no comparison clamps and which is stored as 0.
FinalPixel(gray, minGray, scale, isDark) ==
    LET common == Gcd(scale[1], LumaUnit)
        top == (gray - minGray) * (scale[1] \div common)
        den == (LumaUnit \div common) * scale[2]
        normalized == IF top < 0 THEN 0 ELSE IF top > 255 * den THEN 255 * den ELSE top
        final == IF isDark THEN 255 * den - normalized ELSE normalized
        g == Gcd(final, 255 * den)
    IN  IF den = 0 THEN 0 ELSE Gamma(final \div g, (255 * den) \div g)

\* The canvas preprocessImage hands back for a decoded bitmap.
Processed(bitmap) ==
    LET drawn == Upscaled(bitmap)
        minGray == MinGray(drawn.data)
        maxGray == MaxGray(drawn.data)
        isDark == IsDarkBackground(drawn.data)
        scale == StretchScale(maxGray - minGray)
    IN  [ width |-> drawn.width, height |-> drawn.height,
          minGray |-> minGray, maxGray |-> maxGray, isDark |-> isDark, scale |-> scale,
          data |-> [k \in DOMAIN drawn.data |->
                       LET final == FinalPixel(Luma(drawn.data[k]), minGray, scale, isDark)
                       IN  <<final, final, final>>] ]

\* The run before preprocessImage is called on a blob that decodes to `bitmap`.
Called(bitmap) == [ stage |-> "called", bitmap |-> bitmap ]

InitImaging ==
    /\ worker = NoWorker
    /\ loading = FALSE
    /\ engines = <<>>
    /\ calls = [c \in Callers |-> IdleCall]
    /\ terms = [t \in Terminators |-> IdleTerm]
    /\ nCalls = 0
    /\ nTerms = 0
    /\ hist = NoHistory
    /\ env = "imaging"
    /\ imaging \in { Called(bitmap) : bitmap \in Bitmaps }
    /\ view = NoView

\* preprocessImage(blob), up to `await createImageBitmap(imageSource)`; without a
\* 2d context it throws.
PreprocessImageStart ==
    /\ imaging.stage = "called"
    /\ \/ imaging' = [imaging EXCEPT !.stage = "decoding"]
       \/ imaging' = [ stage |-> "threw" ]
    /\ UNCHANGED <<ocrVars, view>>

\* createImageBitmap settles: the bitmap is drawn enlarged, the two passes run
\* and the canvas is handed back; or the blob does not decode.
PreprocessImageResume ==
    /\ imaging.stage = "decoding"
    /\ \/ imaging' = [ stage |-> "returned", bitmap |-> imaging.bitmap,
                        canvas |-> Processed(imaging.bitmap) ]
       \/ imaging' = [ stage |-> "threw" ]
    /\ UNCHANGED <<ocrVars, view>>

NextImaging ==
    \/ PreprocessImageStart
    \/ PreprocessImageResume

SpecImaging == InitImaging /\ [][NextImaging]_vars

\* ------------------------------------------------- CameraView, on its own
\* Sizes are in CSS pixels.  The overlay and the video element fill the same
\* container, so one client size stands for both; the sizes are multiples of
\* ten, for which the 0.8, the 0.4 and the halves of initBox are whole numbers,
\* and the video sizes are such that the crop of takePhoto is a whole number too.
Clients == { <<100, 100>>, <<200, 300>> }
Videos == { <<400, 600>>, <<600, 600>> }
Pointers == { <<0, 0>>, <<150, 0>>, <<150, 150>> }

MinBoxSize == 50

Max(a, b) == IF a >= b THEN a ELSE b
Min(a, b) == IF a <= b THEN a ELSE b

\* box after initBox: 80% of the width, 40% of the height, centred.
InitBox(client) ==
    LET width == (client[1] * 8) \div 10
        height == (client[2] * 4) \div 10
    IN  [ x |-> (client[1] - width) \div 2, y |-> (client[2] - height) \div 2,
          width |-> width, height |-> height ]

NoScan == [ pc |-> "none" ]

\* The component before onMounted: box is all zero and no gesture is under way.
Setup(client) ==
    [ stage |-> "setup", client |-> client,
      box |-> [ x |-> 0, y |-> 0, width |-> 0, height |-> 0 ],
      isDragging |-> FALSE, isResizing |-> FALSE,
      startX |-> 0, startY |-> 0, startBoxX |-> 0, startBoxY |-> 0,
      startBoxW |-> 0, startBoxH |-> 0,
      scan |-> NoScan ]

InitView ==
    /\ worker = NoWorker
    /\ loading = FALSE
    /\ engines = <<>>
    /\ calls = [c \in Callers |-> IdleCall]
    /\ terms = [t \in Terminators |-> IdleTerm]
    /\ nCalls = 0
    /\ nTerms = 0
    /\ hist = NoHistory
    /\ env = "view"
    /\ imaging = NoImaging
    /\ view \in { Setup(client) : client \in Clients }

\* onMounted: initBox().
Mounted ==
    /\ view.stage = "setup"
    /\ view' = [view EXCEPT !.stage = "mounted", !.box = InitBox(view.client)]
    /\ UNCHANGED <<ocrVars, imaging>>

\* The box and the window are left alone while a scan is under way.
Still == view.scan.pc = "none"

\* The window is resized: the overlay has a new size and the listener runs initBox.
WindowResize ==
    /\ view.stage = "mounted"
    /\ Still
    /\ \E client \in Clients \ {view.client} :
          view' = [view EXCEPT !.client = client, !.box = InitBox(client)]
    /\ UNCHANGED <<ocrVars, imaging>>

\* The move and end listeners are bound from onTouchStart to cleanupEvents.
Listening == view.isDragging \/ view.isResizing

\* onTouchStart(e, type) with the pointer at `at`.
OnTouchStart(at, type) ==
    /\ view.stage = "mounted"
    /\ Still
    /\ view' = IF type = "drag"
               THEN [view EXCEPT !.startX = at[1], !.startY = at[2],
                                 !.isDragging = TRUE,
                                 !.startBoxX = view.box.x, !.startBoxY = view.box.y]
               ELSE [view EXCEPT !.startX = at[1], !.startY = at[2],
                                 !.isResizing = TRUE,
                                 !.startBoxW = view.box.width, !.startBoxH = view.box.height]
    /\ UNCHANGED <<ocrVars, imaging>>

\* Math.max(50, Math.min(new, client - box))
Resized(wanted, room) == Max(MinBoxSize, Min(wanted, room))

\* Math.max(0, Math.min(new, client - box))
Dragged(wanted, room) == Max(0, Min(wanted, room))

\* handleMove(clientX, clientY), as onTouchMove and onMouseMove call it.
HandleMove(at) ==
    /\ view.stage = "mounted"
    /\ Listening
    /\ Still
    /\ LET dx == at[1] - view.startX
           dy == at[2] - view.startY
       IN  view' =
             IF view.isDragging
             THEN [view EXCEPT
                     !.box.x = Dragged(view.startBoxX + dx, view.client[1] - view.box.width),
                     !.box.y = Dragged(view.startBoxY + dy, view.client[2] - view.box.height)]
             ELSE [view EXCEPT
                     !.box.width = Resized(view.startBoxW + dx, view.client[1] - view.box.x),
                     !.box.height = Resized(view.startBoxH + dy, view.client[2] - view.box.y)]
    /\ UNCHANGED <<ocrVars, imaging>>

\* cleanupEvents(), on touchend and mouseup.  The start values stay in the
\* closure but are dead: handleMove runs only between an onTouchStart, which
\* writes the ones its branch reads, and the next cleanupEvents.  They are
\* dropped here.
CleanupEvents ==
    /\ view.stage = "mounted"
    /\ Listening
    /\ view' = [view EXCEPT !.isDragging = FALSE, !.isResizing = FALSE,
                            !.startX = 0, !.startY = 0,
                            !.startBoxX = 0, !.startBoxY = 0,
                            !.startBoxW = 0, !.startBoxH = 0]
    /\ UNCHANGED <<ocrVars, imaging>>

\* videoAspect > displayAspect, for whole sizes.
Wider(video, client) == video[1] * client[2] > client[1] * video[2]

\* takePhoto: the part of the frame that is drawn (sx, sy, sWidth, sHeight) and
\* the canvas it is drawn on, whose width and height are whole numbers.
TakePhoto(video, client) ==
    LET sWidth == IF Wider(video, client) THEN (video[2] * client[1]) \div client[2] ELSE video[1]
        sHeight == IF Wider(video, client) THEN video[2] ELSE (video[1] * client[2]) \div client[1]
    IN  [ sx |-> IF Wider(video, client) THEN (video[1] - sWidth) \div 2 ELSE 0,
          sy |-> IF Wider(video, client) THEN 0 ELSE (video[2] - sHeight) \div 2,
          sWidth |-> sWidth, sHeight |-> sHeight,
          canvas |-> <<sWidth, sHeight>> ]

\* The slip of taking the height of the frame for the width of the photo.
BlobWidthIsHeight(video, client) == video[2]

\* blobWidth of handleScan.
BlobWidth(video, client) ==
    IF Wider(video, client) THEN (video[2] * client[1]) \div client[2] ELSE video[1]

\* handleScan, up to `await takePhoto()`, with the camera giving frames of
\* `video`.  The shutter is pressed between gestures, and once at a time.
HandleScan(video) ==
    /\ view.stage = "mounted"
    /\ view.scan.pc = "none"
    /\ ~Listening
    /\ view' = [view EXCEPT !.scan = [ pc |-> "photo", video |-> video,
                                       photo |-> TakePhoto(video, view.client) ]]
    /\ UNCHANGED <<ocrVars, imaging>>

\* takePhoto has settled: the box is mapped into the photo and handed, with the
\* photo, to recognizeOCR, which scales it once more (scaledRectangle).
HandleScanResume ==
    /\ view.stage = "mounted"
    /\ view.scan.pc = "photo"
    /\ LET blobWidth == BlobWidth(view.scan.video, view.client)
           scale == blobWidth \div view.client[1]
           rectangle == << view.box.x * scale, view.box.y * scale,
                           view.box.width * scale, view.box.height * scale >>
       IN  view' = [view EXCEPT !.scan =
                       [ pc |-> "sent", video |-> view.scan.video, photo |-> view.scan.photo,
                         blobWidth |-> blobWidth, scale |-> scale,
                         rectangle |-> rectangle,
                         scaledRectangle |-> ScaledRectangle(rectangle) ]]
    /\ UNCHANGED <<ocrVars, imaging>>

\* recognizeOCR has settled and the result is shown.
HandleScanDone ==
    /\ view.stage = "mounted"
    /\ view.scan.pc = "sent"
    /\ view' = [view EXCEPT !.scan = NoScan]
    /\ UNCHANGED <<ocrVars, imaging>>

NextView ==
    \/ Mounted
    \/ WindowResize
    \/ \E at \in Pointers, type \in {"drag", "resize"} : OnTouchStart(at, type)
    \/ \E at \in Pointers : HandleMove(at)
    \/ CleanupEvents
    \/ \E video \in Videos : HandleScan(video)
    \/ HandleScanResume
    \/ HandleScanDone

SpecView == InitView /\ [][NextView]_vars

\* =================================================================== claims
InEngineCall(c) == calls[c].pc \in {"setParameters", "recognize"}

\* The text handed back for task i of a successful invocation.
ResultText(c, i) ==
    IF calls[c].isBatch THEN calls[c].ret.value[i] ELSE calls[c].ret.value

\* C1: over awaited recognizeOCR calls with no terminate in between, createWorker
\* yields an engine at most once, and every call that is past the `if (!worker)`
\* step works on that one engine: it is the worker, it is live, and it is the
\* engine every pending setParameters/recognize call went to.
C1_SessionReuse ==
    nTerms = 0 =>
        /\ Len(engines) <= 1
        /\ \A c \in Callers :
              calls[c].pc \in {"preprocessing", "setParameters", "recognize"} =>
                  /\ Len(engines) = 1
                  /\ worker = 1
                  /\ engines[1].alive
                  /\ InEngineCall(c) => calls[c].target = 1

\* The second call, whose only task sets nothing, finds the whitelist an earlier
\* call set on the engine: it is running on the first call's engine.
C1_Witness ==
    /\ nTerms = 0
    /\ \E c \in Callers :
          /\ calls[c].ticket = 2
          /\ calls[c].pc = "recognize"
          /\ calls[c].tasks = <<PlainTask>>
          /\ calls[c].target = 1
          /\ "tessedit_char_whitelist" \in DOMAIN calls[c].inEffect

\* C2: a recognizeOCR invocation that started while an earlier one, already on
\* the session (past its `if (!worker)` step), is still pending has no
\* setParameters/recognize call out to the engine.
C2_OneBatchAtATime ==
    \A c, d \in Callers :
        ( /\ c # d
          /\ calls[d].pc \in {"preprocessing", "setParameters", "recognize"}
          /\ calls[d].ticket < calls[c].ticket ) => ~InEngineCall(c)

\* C3: the engine parameters in effect during a task's recognize call are the
\* overrides of all tasks recognized on that engine since it was created, this
\* task's included, later values overwriting earlier ones per key; so a task
\* with no overrides and no mode runs under what the previous task left.
C3_StickyParameters ==
    \A c \in Callers :
        calls[c].pc = "recognize" => calls[c].inEffect = hist.applied[calls[c].target]

\* The second task of an array sets nothing and is recognized under the whitelist
\* and the mode the first task set.
C3_Witness ==
    \E c \in Callers :
        /\ calls[c].pc = "recognize"
        /\ calls[c].i = 2
        /\ calls[c].tasks[2] = PlainTask
        /\ calls[c].tasks[1] = LineTask
        /\ calls[c].inEffect = Accumulate(NoParams, LineTask)

\* C4: a successful recognizeOCR hands back one string for a single task, and
\* for an array of N tasks an array of N strings whose element i is the
\* post-processed raw text the engine gave for task i.
C4_BatchShape ==
    \A c \in Callers :
        calls[c].outcome = "returned" =>
            IF calls[c].isBatch
            THEN /\ calls[c].ret.kind = "array"
                 /\ Len(calls[c].ret.value) = Len(calls[c].tasks)
                 /\ \A i \in 1..Len(calls[c].tasks) :
                       calls[c].ret.value[i] = PostProcess(calls[c].tasks[i].psm, calls[c].raws[i])
            ELSE /\ calls[c].ret.kind = "string"
                 /\ calls[c].ret.value = PostProcess(calls[c].tasks[1].psm, calls[c].raws[1])

\* A two-task array came back as two different strings, each its own task's.
C4_Witness ==
    \E c \in Callers :
        /\ calls[c].outcome = "returned"
        /\ calls[c].isBatch
        /\ Len(calls[c].tasks) = 2
        /\ calls[c].raws[1] # calls[c].raws[2]
        /\ calls[c].ret.value[1] # calls[c].ret.value[2]

\* C5: what recognizeOCR hands back after a failure (the catch path) differs
\* from what a successful recognition of empty text, or a successful empty
\* array, hands back.
C5_FailureDistinguishable ==
    \A c \in Callers :
        calls[c].outcome = "caught" =>
            calls[c].ret \notin { StringValue(<<>>), ArrayValue(<<>>) }

\* The segmentation modes for one column, one vertical block, one line, one word
\* and one character (Tesseract.PSM).
LineCharColumnModes == {"4", "5", "7", "8", "10"}

\* C6: a task's text has all whitespace removed exactly when the task asked for
\* a line, character or column mode; any other task's text is only trimmed.
C6_WhitespacePolicy ==
    \A c \in Callers :
        calls[c].outcome = "returned" =>
            \A i \in 1..Len(calls[c].tasks) :
                ResultText(c, i) =
                    IF calls[c].tasks[i].psm \in LineCharColumnModes
                    THEN RemoveAllWhitespace(calls[c].raws[i])
                    ELSE Trim(calls[c].raws[i])

\* C7: with every invocation awaited, an engine is terminated once when it is
\* given up and never otherwise (terminate with no session, and a second
\* terminate, call no engine); after a terminate has returned, and until the
\* next recognizeOCR, there is no worker and no live engine; and a worker, once
\* there is one again, is the newest engine and is live.
C7_TerminateIdempotent ==
    /\ \A e \in DOMAIN engines :
          engines[e].terminateCalls = IF engines[e].alive THEN 0 ELSE 1
    /\ hist.quiet => (worker = NoWorker /\ \A e \in DOMAIN engines : ~engines[e].alive)
    /\ (worker # NoWorker /\ \A t \in Terminators : terms[t].pc # "terminating") =>
          (worker = Len(engines) /\ engines[worker].alive)

\* Absent -> Ready -> Absent -> Ready, with two terminates behind it.
C7_Witness ==
    /\ nTerms = 2
    /\ Len(engines) = 2
    /\ ~engines[1].alive
    /\ engines[1].terminateCalls = 1
    /\ worker = 2
    /\ engines[2].alive

\* C8: once a terminate that raced a pending recognizeOCR has returned (and no
\* new recognizeOCR has started), there is no worker and no live engine; and no
\* invocation calls a missing or a terminated engine.
C8_TerminateRace ==
    /\ hist.quiet => (worker = NoWorker /\ \A e \in DOMAIN engines : ~engines[e].alive)
    /\ hist.misuse = "none"

\* C9: a batch's engine calls go to an engine created for the batch's initial
\* language set.
C9_SessionLanguages ==
    \A c \in Callers :
        InEngineCall(c) => engines[calls[c].target].langs = calls[c].initLangs

\* C10: a rectangle handed to recognize lies inside the working image and has
\* positive width and height.
C10_RectangleInsideImage ==
    \A c \in Callers :
        (calls[c].pc = "recognize" /\ calls[c].rectangle # NoRect) =>
            LET r == calls[c].rectangle
                img == calls[c].processedImage
            IN  /\ Left(r) >= 0 /\ Top(r) >= 0
                /\ Width(r) > 0 /\ Height(r) > 0
                /\ Left(r) + Width(r) <= img[1]
                /\ Top(r) + Height(r) <= img[2]

\* What recognizeOCR(image, task) hands back on a deterministic engine created
\* for `langs` whose parameters are `params` when the call starts.
SingleText(langs, params, task) ==
    PostProcess(task.psm,
                EngineText(langs, Accumulate(params, task), ScaledRectangle(task.rectangle)))

\* The strings of recognizeOCR(image, t1), recognizeOCR(image, t2), ... made one
\* after the other on that engine, each call starting from the parameters the
\* call before it left.
RECURSIVE Individually(_, _, _)
Individually(langs, params, tasks) ==
    IF tasks = <<>> THEN <<>>
    ELSE <<SingleText(langs, params, Head(tasks))>>
         \o Individually(langs, Accumulate(params, Head(tasks)), Tail(tasks))

Succeeded(c) == calls[c].outcome = "returned" /\ calls[c].tasks # <<>>

\* C11: on a deterministic engine, a successful recognizeOCR(image, [t1, t2])
\* hands back the strings that recognizeOCR(image, t1) followed by
\* recognizeOCR(image, t2) hand back on a session that starts with the same
\* parameters: a single call hands back SingleText and leaves the session with
\* its own overrides added to those it started from (so the next call starts
\* from them), and an array hands back the strings of single calls so chained.
C11_BatchEqualsIndividual ==
    /\ \A c \in Callers :
          Succeeded(c) =>
              LET langs == engines[calls[c].target].langs
              IN  IF calls[c].isBatch
                  THEN calls[c].ret.value = Individually(langs, calls[c].startParams, calls[c].tasks)
                  ELSE calls[c].ret.value = SingleText(langs, calls[c].startParams, calls[c].tasks[1])
    /\ \A c \in Callers :
          (Succeeded(c) /\ ~calls[c].isBatch /\ engines[calls[c].target].alive) =>
              engines[calls[c].target].params =
                  Accumulate(calls[c].startParams, calls[c].tasks[1])

\* An array of two tasks came back from a fresh session, and its second string is
\* not the one the second task alone gives on a fresh session: the first task's
\* whitelist is in it, as it is after the first task's own call.
C11_Witness ==
    \E c \in Callers :
        /\ Succeeded(c)
        /\ calls[c].isBatch
        /\ calls[c].tasks = <<LineTask, PlainTask>>
        /\ calls[c].startParams = NoParams
        /\ calls[c].ret.value[2] =
               SingleText(<<"eng">>, Accumulate(NoParams, LineTask), PlainTask)
        /\ calls[c].ret.value[2] # SingleText(<<"eng">>, NoParams, PlainTask)

\* C12: when createWorker rejects (the invocation leaves its createWorker await
\* and no engine has been added), the invocation is over at once: it hands back
\* the empty value of its shape, not partial results, with no setParameters or
\* recognize call made for any task and no engine touched; worker stays null and
\* loading is cleared.  And an invocation that starts (with an image) while worker
\* is null goes to createWorker again.
C12_CreationFailureAborts ==
    [][ \A c \in Callers :
          /\ ( /\ calls[c].pc = "creating"
               /\ calls'[c].pc # "creating"
               /\ engines' = engines ) =>
                  /\ calls'[c].pc = "returned"
                  /\ calls'[c].outcome = "caught"
                  /\ calls'[c].ret = EmptyValue(calls[c].isBatch)
                  /\ calls'[c].results = <<>>
                  /\ worker = NoWorker /\ worker' = NoWorker
                  /\ hist' = hist
                  /\ ~loading'
          /\ (worker = NoWorker /\ ~Pending(c) /\ calls'[c].pc # "returned"
              /\ calls'[c] # calls[c]) =>
                  calls'[c].pc = "creating" ]_vars

\* An array call has failed at createWorker: it is over with an empty array and
\* there is still no engine and no worker.
C12_Witness ==
    \E c \in Callers :
        /\ calls[c].outcome = "caught"
        /\ calls[c].isBatch
        /\ calls[c].ret = ArrayValue(<<>>)
        /\ engines = <<>>
        /\ worker = NoWorker
        /\ ~loading

\* C13: the working image preprocessImage hands back is exactly twice as wide
\* and twice as high as the input image, and the rectangle handed to recognize
\* is the task's rectangle with left, top, width and height each multiplied by
\* that same factor (no rectangle stays no rectangle).
C13_UpscaleExact ==
    \A c \in Callers :
        calls[c].processedImage # NoImage =>
            /\ calls[c].processedImage[1] = 2 * calls[c].image[1]
            /\ calls[c].processedImage[2] = 2 * calls[c].image[2]
            /\ calls[c].pc = "recognize" =>
                  LET asked == calls[c].tasks[calls[c].i].rectangle
                      given == calls[c].rectangle
                  IN  IF asked = NoRect THEN given = NoRect
                      ELSE /\ given # NoRect
                           /\ Left(given) * calls[c].image[1] = Left(asked) * calls[c].processedImage[1]
                           /\ Top(given) * calls[c].image[2] = Top(asked) * calls[c].processedImage[2]
                           /\ Width(given) * calls[c].image[1] = Width(asked) * calls[c].processedImage[1]
                           /\ Height(given) * calls[c].image[2] = Height(asked) * calls[c].processedImage[2]

\* A 3 x 2 image has become a 6 x 4 working image, and the region 2 x 1 at (1, 1)
\* is asked of the engine as 4 x 2 at (2, 2).
C13_Witness ==
    \E c \in Callers :
        /\ calls[c].pc = "recognize"
        /\ calls[c].image = <<3, 2>>
        /\ calls[c].processedImage = <<6, 4>>
        /\ calls[c].tasks[calls[c].i].rectangle = <<1, 1, 2, 1>>
        /\ calls[c].rectangle = <<2, 2, 4, 2>>

Uniform(data) == \A j, k \in DOMAIN data : data[j] = data[k]

\* C14: when every pixel of the working image has the same luma (minGray equals
\* maxGray), preprocessImage divides by no zero (the stretch scale is 1, and the
\* pixel count the average is taken over is positive), and every pixel of the
\* canvas it hands back has one and the same value in R, G and B.
C14_UniformImage ==
    (imaging.stage = "returned" /\ imaging.canvas.minGray = imaging.canvas.maxGray) =>
        /\ imaging.canvas.scale = <<1, 1>>
        /\ Len(imaging.canvas.data) > 0
        /\ Uniform(imaging.canvas.data)
        /\ \A k \in DOMAIN imaging.canvas.data :
              /\ imaging.canvas.data[k][1] = imaging.canvas.data[k][2]
              /\ imaging.canvas.data[k][2] = imaging.canvas.data[k][3]
              /\ imaging.canvas.data[k][1] \in 0..255

\* An all-red bitmap of three pixels (luma 54, a dark background) has come back
\* as twelve pixels of 255, 255, 255.
C14_Witness ==
    /\ imaging.stage = "returned"
    /\ imaging.bitmap.data = << <<255, 0, 0>>, <<255, 0, 0>>, <<255, 0, 0>> >>
    /\ imaging.canvas.minGray = imaging.canvas.maxGray
    /\ Len(imaging.canvas.data) = 12
    /\ \A k \in DOMAIN imaging.canvas.data : imaging.canvas.data[k] = <<255, 255, 255>>

EqualAspect(video, client) == video[1] * client[2] = client[1] * video[2]

\* C15: when the display and the camera frame have the same aspect ratio, the
\* photo is the whole frame (nothing is cut off on either axis: sx and sy are 0
\* and the canvas has the frame's size), the scale is exactly frame width over
\* display width, the rectangle sent is the box with left, top, width and height
\* each multiplied by that scale and nothing added, and the engine is asked for
\* that rectangle multiplied by the upscale factor.
C15_EqualAspectPureScaling ==
    ( /\ view.stage = "mounted"
      /\ view.scan.pc # "none"
      /\ EqualAspect(view.scan.video, view.client) ) =>
        /\ view.scan.photo.sx = 0
        /\ view.scan.photo.sy = 0
        /\ view.scan.photo.canvas = view.scan.video
        /\ view.scan.pc = "sent" =>
              /\ view.scan.scale * view.client[1] = view.scan.video[1]
              /\ view.scan.rectangle =
                    << view.box.x * view.scan.scale, view.box.y * view.scan.scale,
                       view.box.width * view.scan.scale, view.box.height * view.scan.scale >>
              /\ view.scan.scaledRectangle =
                    << 2 * Left(view.scan.rectangle), 2 * Top(view.scan.rectangle),
                       2 * Width(view.scan.rectangle), 2 * Height(view.scan.rectangle) >>

\* A 200 x 300 display on a 400 x 600 frame: the box, dragged into the corner and
\* made as small as it goes (50 x 50 at 40, 180), is sent as 100 x 100 at 80, 360
\* and asked of the engine as 200 x 200 at 160, 720.
C15_Witness ==
    /\ view.stage = "mounted"
    /\ view.scan.pc = "sent"
    /\ view.client = <<200, 300>>
    /\ view.scan.video = <<400, 600>>
    /\ view.scan.photo.canvas = <<400, 600>>
    /\ view.scan.scale = 2
    /\ view.box = [x |-> 40, y |-> 180, width |-> 50, height |-> 50]
    /\ view.scan.rectangle = <<80, 360, 100, 100>>
    /\ view.scan.scaledRectangle = <<160, 720, 200, 200>>

\* C16: whatever the interleaving of recognizeOCR and terminate invocations, at
\* most one engine is live (created and not terminated) at a time, and a live
\* engine is the one `worker` refers to: none is left live with nothing
\* referring to it.
C16_NoEngineLeak ==
    /\ Cardinality({ e \in DOMAIN engines : engines[e].alive }) <= 1
    /\ \A e \in DOMAIN engines : engines[e].alive => worker = e

\* C17: once initBox has run, and through any drag and resize gestures, the scan
\* box lies inside the overlay: x and y are not negative, x + width is at most
\* the overlay's width and y + height at most its height.
C17_BoxInsideOverlay ==
    view.stage = "mounted" =>
        /\ view.box.x >= 0
        /\ view.box.y >= 0
        /\ view.box.x + view.box.width <= view.client[1]
        /\ view.box.y + view.box.height <= view.client[2]

\* C18: whatever the interleaving of recognizeOCR and terminate invocations,
\* loading is true whenever some recognizeOCR invocation that was given an image
\* has started and not returned, and false when there is none.
C18_LoadingTracksPending ==
    loading <=> \E c \in Callers : Pending(c)

====
